---- MODULE Spec2Model ----
(***************************************************************************)
(* Model of package login (oci/auth/login/login.go): the registry provider *)
(* classifier ImageRegistryProvider and the login Manager with its three   *)
(* client handles, its override setters and Login.                         *)
(*                                                                         *)
(* Strings are modelled structurally: a registry host is a sequence of     *)
(* dot-separated labels, an image is a sequence of slash-separated         *)
(* segments, each segment a sequence of labels.                            *)
(***************************************************************************)
EXTENDS Integers, Sequences, FiniteSets, TLC

\* ---------------------------------------------------------------- bounds
NumManagers == 2       \* Managers built by NewManager
NumCallers == 2        \* goroutines calling Login concurrently
NumOverrides == 1      \* caller-made clients per provider, besides the defaults

\* ------------------------------------------------------------- constants
Nil == "nil"
NoClient == <<"none", 0>>              \* no client handle
NoRef == [registry |-> <<>>]
NoOpts == [AwsAutoLogin |-> FALSE, GcpAutoLogin |-> FALSE, AzureAutoLogin |-> FALSE]
NoResult == [auth |-> Nil, err |-> Nil]

ProviderGeneric == "generic"
ProviderAWS == "aws"
ProviderGCP == "gcp"
ProviderAzure == "azure"
Providers == {ProviderGeneric, ProviderAWS, ProviderGCP, ProviderAzure}

\* ------------------------------------------------------- input universes
EcrHost == <<"123456789012", "dkr", "ecr", "us-west-2", "amazonaws", "com">>
GcrHost == <<"gcr", "io">>
EuGcrHost == <<"eu", "gcr", "io">>
ArtifactHost == <<"us-docker", "pkg", "dev">>
AcrHost == <<"myregistry", "azurecr", "io">>
BareAcrHost == <<"azurecr", "io">>
DockerHost == <<"docker", "io">>

Hosts == {EcrHost, GcrHost, EuGcrHost, ArtifactHost, AcrHost, BareAcrHost, DockerHost}

Images ==
    { <<EcrHost, <<"my-repo">>>>,
      <<EcrHost>>,
      <<GcrHost, <<"my-project">>, <<"my-repo">>>>,
      <<AcrHost, <<"my-repo">>>>,
      <<DockerHost, <<"library">>, <<"nginx">>>>,
      <<GcrHost, EcrHost, <<"my-repo">>>>,
      <<AcrHost, EcrHost, <<"my-repo">>>> }

\* name.Reference, as far as the package reads it: its registry host.
References == [registry : Hosts]

\* The arguments Login is driven with: one pair per provider, one image
\* whose path embeds an ECR host under a GCP registry, and one ECR image
\* handed over with an Azure reference.
LoginInputs ==
    { <<<<EcrHost, <<"my-repo">>>>, [registry |-> EcrHost]>>,
      <<<<GcrHost, <<"my-project">>, <<"my-repo">>>>, [registry |-> GcrHost]>>,
      <<<<AcrHost, <<"my-repo">>>>, [registry |-> AcrHost]>>,
      <<<<DockerHost, <<"library">>, <<"nginx">>>>, [registry |-> DockerHost]>>,
      <<<<GcrHost, EcrHost, <<"my-repo">>>>, [registry |-> GcrHost]>>,
      <<<<EcrHost, <<"my-repo">>>>, [registry |-> AcrHost]>> }

Contexts == {"ctxA", "ctxB"}

ProviderOptions == [AwsAutoLogin : BOOLEAN, GcpAutoLogin : BOOLEAN, AzureAutoLogin : BOOLEAN]

Callers == 1..NumCallers

Managers == 1..NumManagers

\* Client handles: <<kind, n>>. n in Managers is the default client that
\* NewManager made for Manager n; larger n are clients made by the caller.
DefaultIds == Managers
OverrideIds == (NumManagers + 1)..(NumManagers + NumOverrides)
Clients(kind) == {kind} \X (DefaultIds \cup OverrideIds)
OverrideClients(kind) == {kind} \X OverrideIds

\* What a client's Login can hand back: (authn.Authenticator, error).
ClientResults == [auth : {Nil, "cred"}, err : {Nil, "denied"}]

\* ------------------------------------------------ external collaborators
Suffix(s, n) == SubSeq(s, Len(s) - n + 1, Len(s))

IsEcrHost(seg) ==
    /\ Len(seg) = 6
    /\ seg[2] = "dkr" /\ seg[3] = "ecr"
    /\ seg[5] = "amazonaws" /\ seg[6] = "com"

\* aws.ParseImage(image), third result: the ECR pattern occurs in the image,
\* followed by a repository path.
awsParseImage(image) ==
    \E i \in 1..(Len(image) - 1) : IsEcrHost(image[i])

\* gcp.ValidHost(host)
gcpValidHost(host) ==
    \/ host = <<"gcr", "io">>
    \/ Len(host) > 2 /\ Suffix(host, 2) = <<"gcr", "io">>
    \/ Len(host) > 2 /\ Suffix(host, 2) = <<"pkg", "dev">>

\* azure.ValidHost(host)
azureValidHost(host) ==
    Len(host) > 2 /\ Suffix(host, 2) = <<"azurecr", "io">>

RegistryStr(ref) == ref.registry

\* ------------------------------------------------------------ classifier
\* Faulty variant: the host tests run before the image test.
ImageRegistryProviderHostFirst(image, ref) ==
    IF gcpValidHost(RegistryStr(ref)) THEN ProviderGCP
    ELSE IF azureValidHost(RegistryStr(ref)) THEN ProviderAzure
    ELSE IF awsParseImage(image) THEN ProviderAWS
    ELSE ProviderGeneric

\* Faulty variant: the Azure branch is missing.
ImageRegistryProviderNoAzure(image, ref) ==
    IF awsParseImage(image) THEN ProviderAWS
    ELSE IF gcpValidHost(RegistryStr(ref)) THEN ProviderGCP
    ELSE ProviderGeneric

\* Faulty variant: the Azure host test runs first.
ImageRegistryProviderAzureFirst(image, ref) ==
    IF azureValidHost(RegistryStr(ref)) THEN ProviderAzure
    ELSE IF awsParseImage(image) THEN ProviderAWS
    ELSE IF gcpValidHost(RegistryStr(ref)) THEN ProviderGCP
    ELSE ProviderGeneric

ImageRegistryProvider(image, ref) ==
    IF awsParseImage(image) THEN ProviderAWS
    ELSE IF gcpValidHost(RegistryStr(ref)) THEN ProviderGCP
    ELSE IF azureValidHost(RegistryStr(ref)) THEN ProviderAzure
    ELSE ProviderGeneric

\* ----------------------------------------------------------------- state
VARIABLES
    heap,   \* heap[r]: the Manager r, its fields ecr, gcr, acr
    pend,   \* pend[g]: client calls made so far by the Login g is inside, 0 if none
    ev,     \* the last operation performed and what it passed and returned
    cls,    \* the last two results of direct ImageRegistryProvider calls
    last    \* last[r][p]: the client the most recent override for provider p
            \* handed to Manager r, the constructor's default before any override

vars == <<heap, pend, ev, cls, last>>

NewManager(r) == [ecr |-> <<"ecr", r>>, gcr |-> <<"gcr", r>>, acr |-> <<"acr", r>>]

\* The Manager the concurrent callers share.
Shared == CHOOSE r \in Managers : \A s \in Managers : r <= s

NoEvent ==
    [type |-> "init", g |-> 0, mgr |-> 0, ctx |-> Nil, image |-> <<>>, ref |-> NoRef,
     opts |-> NoOpts, tag |-> Nil, classified |-> 0, handle |-> NoClient, args |-> <<>>,
     attempts |-> 0, cres |-> NoResult, auth |-> Nil, err |-> Nil, ret |-> 0]

Init ==
    /\ heap = [r \in Managers |-> NewManager(r)]
    /\ pend = [g \in Callers |-> 0]
    /\ ev = NoEvent
    /\ cls = <<>>
    /\ last = [r \in Managers |->
                [p \in {ProviderAWS, ProviderGCP, ProviderAzure} |->
                    IF p = ProviderAWS THEN NewManager(r).ecr
                    ELSE IF p = ProviderGCP THEN NewManager(r).gcr
                    ELSE NewManager(r).acr]]

\* --------------------------------------------------------------- setters
WithECRClient(r, c) ==
    /\ heap' = [heap EXCEPT ![r].ecr = c]
    /\ ev' = [NoEvent EXCEPT !.type = "with", !.tag = ProviderAWS, !.mgr = r,
                             !.handle = c, !.ret = r]
    /\ last' = [last EXCEPT ![r][ProviderAWS] = c]
    /\ UNCHANGED <<pend, cls>>

\* Faulty variant: the GCR setter stores into the ecr field.
WithGCRClientWrongField(r, c) ==
    /\ heap' = [heap EXCEPT ![r].ecr = c]
    /\ ev' = [NoEvent EXCEPT !.type = "with", !.tag = ProviderGCP, !.mgr = r,
                             !.handle = c, !.ret = r]
    /\ last' = [last EXCEPT ![r][ProviderGCP] = c]
    /\ UNCHANGED <<pend, cls>>

WithGCRClient(r, c) ==
    /\ heap' = [heap EXCEPT ![r].gcr = c]
    /\ ev' = [NoEvent EXCEPT !.type = "with", !.tag = ProviderGCP, !.mgr = r,
                             !.handle = c, !.ret = r]
    /\ last' = [last EXCEPT ![r][ProviderGCP] = c]
    /\ UNCHANGED <<pend, cls>>

\* Faulty variant: a value receiver; the setter changes and returns a copy.
WithACRClientCopy(r, c) ==
    /\ heap' = heap
    /\ ev' = [NoEvent EXCEPT !.type = "with", !.tag = ProviderAzure, !.mgr = r,
                             !.handle = c, !.ret = 0]
    /\ last' = [last EXCEPT ![r][ProviderAzure] = c]
    /\ UNCHANGED <<pend, cls>>

WithACRClient(r, c) ==
    /\ heap' = [heap EXCEPT ![r].acr = c]
    /\ ev' = [NoEvent EXCEPT !.type = "with", !.tag = ProviderAzure, !.mgr = r,
                             !.handle = c, !.ret = r]
    /\ last' = [last EXCEPT ![r][ProviderAzure] = c]
    /\ UNCHANGED <<pend, cls>>

\* ----------------------------------------------------------------- Login
\* Faulty variant: the GCP and Azure cases call each other's client.
DispatchSwapped(m, tag, ctx, image, ref, opts) ==
    CASE tag = ProviderAWS ->
            [handle |-> m.ecr, args |-> <<ctx, opts.AwsAutoLogin, image>>]
      [] tag = ProviderGCP ->
            [handle |-> m.acr, args |-> <<ctx, opts.GcpAutoLogin, image, ref>>]
      [] tag = ProviderAzure ->
            [handle |-> m.gcr, args |-> <<ctx, opts.AzureAutoLogin, image, ref>>]
      [] OTHER ->
            [handle |-> NoClient, args |-> <<>>]

\* Faulty variant: the GCP case forwards the AWS flag.
DispatchWrongFlag(m, tag, ctx, image, ref, opts) ==
    CASE tag = ProviderAWS ->
            [handle |-> m.ecr, args |-> <<ctx, opts.AwsAutoLogin, image>>]
      [] tag = ProviderGCP ->
            [handle |-> m.gcr, args |-> <<ctx, opts.AwsAutoLogin, image, ref>>]
      [] tag = ProviderAzure ->
            [handle |-> m.acr, args |-> <<ctx, opts.AzureAutoLogin, image, ref>>]
      [] OTHER ->
            [handle |-> NoClient, args |-> <<>>]

\* The client and the arguments the switch in Login selects for a tag.
Dispatch(m, tag, ctx, image, ref, opts) ==
    CASE tag = ProviderAWS ->
            [handle |-> m.ecr, args |-> <<ctx, opts.AwsAutoLogin, image>>]
      [] tag = ProviderGCP ->
            [handle |-> m.gcr, args |-> <<ctx, opts.GcpAutoLogin, image, ref>>]
      [] tag = ProviderAzure ->
            [handle |-> m.acr, args |-> <<ctx, opts.AzureAutoLogin, image, ref>>]
      [] OTHER ->
            [handle |-> NoClient, args |-> <<>>]

\* Faulty variant: an unrecognised registry is reported as an error.
LoginDefaultErr == [auth |-> Nil, err |-> "unsupported provider"]

\* What Login returns when the switch selects no client.
LoginDefault == [auth |-> Nil, err |-> Nil]

\* Login up to the point where it is inside the selected client's Login, or,
\* for the generic provider, up to its return.
Login(g, r, ctx, image, ref, opts) ==
    /\ pend[g] = 0
    /\ LET tag == ImageRegistryProvider(image, ref)
           d == Dispatch(heap[r], tag, ctx, image, ref, opts)
           call == [NoEvent EXCEPT !.g = g, !.mgr = r, !.ctx = ctx, !.image = image,
                                   !.ref = ref, !.opts = opts, !.tag = tag,
                                   !.classified = 1]
       IN IF tag \notin {ProviderAWS, ProviderGCP, ProviderAzure}
          THEN /\ ev' = [call EXCEPT !.type = "return", !.auth = LoginDefault.auth,
                                     !.err = LoginDefault.err]
               /\ pend' = pend
          ELSE /\ ev' = [call EXCEPT !.type = "call", !.handle = d.handle,
                                     !.args = d.args, !.attempts = 1]
               /\ pend' = [pend EXCEPT ![g] = 1]
    /\ UNCHANGED <<heap, cls, last>>

\* Faulty variant: Login wraps the client's error and drops its authenticator.
LoginReturnWrapped(g, res) ==
    /\ pend[g] > 0
    /\ ev' = [NoEvent EXCEPT !.type = "return", !.g = g, !.attempts = pend[g],
                             !.cres = res,
                             !.auth = IF res.err = Nil THEN res.auth ELSE Nil,
                             !.err = IF res.err = Nil THEN Nil ELSE "login: " \o res.err]
    /\ pend' = [pend EXCEPT ![g] = 0]
    /\ UNCHANGED <<heap, cls, last>>

\* Faulty variant: after a failed call Login rebuilds the Manager's clients.
LoginReturnResets(g, res) ==
    /\ pend[g] > 0
    /\ ev' = [NoEvent EXCEPT !.type = "return", !.g = g, !.attempts = pend[g],
                             !.cres = res, !.auth = res.auth, !.err = res.err]
    /\ pend' = [pend EXCEPT ![g] = 0]
    /\ heap' = IF res.err = Nil THEN heap
               ELSE [heap EXCEPT ![Shared] = NewManager(Shared)]
    /\ UNCHANGED <<cls, last>>

\* The client call returns res and Login returns it.
LoginReturn(g, res) ==
    /\ pend[g] > 0
    /\ ev' = [NoEvent EXCEPT !.type = "return", !.g = g, !.attempts = pend[g],
                             !.cres = res, !.auth = res.auth, !.err = res.err]
    /\ pend' = [pend EXCEPT ![g] = 0]
    /\ UNCHANGED <<heap, cls, last>>

\* Concurrent callers of one Manager, which may also be reconfigured.
Next ==
    \/ \E c \in OverrideClients("ecr") : WithECRClient(Shared, c)
    \/ \E c \in OverrideClients("gcr") : WithGCRClient(Shared, c)
    \/ \E c \in OverrideClients("acr") : WithACRClient(Shared, c)
    \/ \E g \in Callers, ctx \in Contexts, in \in LoginInputs, opts \in ProviderOptions :
          Login(g, Shared, ctx, in[1], in[2], opts)
    \/ \E g \in Callers, res \in ClientResults : LoginReturn(g, res)

Spec == Init /\ [][Next]_vars

\* --------------------------------- configuration of several Managers
NextConfig ==
    \/ \E r \in Managers, c \in OverrideClients("ecr") : WithECRClient(r, c)
    \/ \E r \in Managers, c \in OverrideClients("gcr") : WithGCRClient(r, c)
    \/ \E r \in Managers, c \in OverrideClients("acr") : WithACRClient(r, c)

SpecConfig == Init /\ [][NextConfig]_vars

\* ------------------------------------------- the classifier on its own
Classify(image, ref) ==
    /\ cls' = <<[image |-> image, ref |-> ref, tag |-> ImageRegistryProvider(image, ref)]>>
                \o SubSeq(cls, 1, IF Len(cls) > 0 THEN 1 ELSE 0)
    /\ UNCHANGED <<heap, pend, ev, last>>

NextClassify == \E image \in Images, ref \in References : Classify(image, ref)

SpecClassify == Init /\ [][NextClassify]_vars

\* ================================================================ claims
ClientProviders == {ProviderAWS, ProviderGCP, ProviderAzure}

\* The handle the specification assigns to a provider tag.
HandleOf(m, p) ==
    IF p = ProviderAWS THEN m.ecr ELSE IF p = ProviderGCP THEN m.gcr ELSE m.acr

\* The client kind the specification assigns to a provider tag.
KindOf(p) ==
    IF p = ProviderAWS THEN "ecr" ELSE IF p = ProviderGCP THEN "gcr" ELSE "acr"

IsLogin == ev.type \in {"call", "return"}
IsOverride(c) == c[2] \in OverrideIds

\* C1: every Login classifies once and calls at most one client, once: the
\* ECR handle for AWS, the GCR handle for GCP, the ACR handle for Azure.
C1_DispatchOnce ==
    /\ ev.type = "call" =>
          /\ ev.classified = 1
          /\ ev.attempts = 1
          /\ ev.tag \in ClientProviders
          /\ ev.tag = ImageRegistryProvider(ev.image, ev.ref)
          /\ ev.handle = HandleOf(heap[ev.mgr], ev.tag)
          /\ ev.handle[1] = KindOf(ev.tag)
    /\ ev.type = "return" => ev.attempts <= 1 /\ (ev.tag # Nil => ev.classified = 1)

C1_Witness ==
    /\ ev.type = "call" /\ ev.tag = ProviderGCP
    /\ IsOverride(ev.handle)
    /\ ~IsOverride(heap[ev.mgr].ecr)

\* C2: a Login on a pair classified Generic returns no authenticator and no
\* error and calls no client, whatever the options and the handles held.
C2_GenericNoop ==
    (IsLogin /\ ev.image # <<>> /\ ImageRegistryProvider(ev.image, ev.ref) = ProviderGeneric)
        => /\ ev.type = "return"
           /\ ev.auth = Nil /\ ev.err = Nil
           /\ ev.attempts = 0 /\ ev.handle = NoClient
           /\ \A g \in Callers : g = ev.g => pend[g] = 0

C2_Witness ==
    /\ ev.type = "return" /\ ev.tag = ProviderGeneric
    /\ ev.opts.AwsAutoLogin /\ ev.opts.GcpAutoLogin /\ ev.opts.AzureAutoLogin
    /\ IsOverride(heap[ev.mgr].ecr) /\ IsOverride(heap[ev.mgr].acr)

\* C3: for a non-Generic classification Login returns exactly the pair its one
\* client call returned, never retries, and reports no error of its own.
C3_Verbatim ==
    ev.type = "return" =>
        IF ev.attempts > 0
        THEN ev.attempts = 1 /\ ev.auth = ev.cres.auth /\ ev.err = ev.cres.err
        ELSE ev.err = Nil

C3_Witness ==
    /\ ev.type = "return" /\ ev.attempts = 1
    /\ ev.cres.err = "denied" /\ ev.err = "denied"

\* C4: each client gets the caller's context, image and reference unchanged
\* and its own provider's auto-login flag only.
C4_Args ==
    ev.type = "call" =>
        ev.args = CASE ev.tag = ProviderAWS ->
                         <<ev.ctx, ev.opts.AwsAutoLogin, ev.image>>
                    [] ev.tag = ProviderGCP ->
                         <<ev.ctx, ev.opts.GcpAutoLogin, ev.image, ev.ref>>
                    [] ev.tag = ProviderAzure ->
                         <<ev.ctx, ev.opts.AzureAutoLogin, ev.image, ev.ref>>
                    [] OTHER -> <<"no such call">>

C4_Witness ==
    /\ ev.type = "call" /\ ev.tag = ProviderAzure
    /\ ev.opts.AzureAutoLogin /\ ~ev.opts.AwsAutoLogin /\ ~ev.opts.GcpAutoLogin
    /\ ev.args[2] = TRUE

Classified == {cls[i] : i \in 1..Len(cls)}

\* C5: an image matching the AWS ECR pattern is classified AWS, also when the
\* reference's registry host passes the GCP or the Azure host test.
C5_AwsFirst ==
    \A c \in Classified : awsParseImage(c.image) => c.tag = ProviderAWS

C5_Witness ==
    \E c \in Classified :
        /\ awsParseImage(c.image)
        /\ azureValidHost(RegistryStr(c.ref))
        /\ c.tag = ProviderAWS

\* C6: the classifier is a total first-match cascade: one of the four tags;
\* without an AWS match GCP if the host passes the GCP test, else Azure if it
\* passes the Azure test, else Generic; equal inputs give equal tags.
C6_Cascade ==
    /\ \A c \in Classified :
          /\ c.tag \in Providers
          /\ ~awsParseImage(c.image) =>
                c.tag = IF gcpValidHost(RegistryStr(c.ref)) THEN ProviderGCP
                        ELSE IF azureValidHost(RegistryStr(c.ref)) THEN ProviderAzure
                        ELSE ProviderGeneric
    /\ \A c, d \in Classified : (c.image = d.image /\ c.ref = d.ref) => c.tag = d.tag

C6_Witness ==
    /\ Len(cls) = 2
    /\ cls[1].image = cls[2].image /\ cls[1].ref = cls[2].ref
    /\ ~awsParseImage(cls[1].image)
    /\ cls[1].tag = ProviderAzure

C8_SetterFrame ==
    [][ev'.type = "with" =>
          /\ ev'.ret = ev'.mgr
          /\ HandleOf(heap'[ev'.mgr], ev'.tag) = ev'.handle
          /\ \A p \in ClientProviders \ {ev'.tag} :
                HandleOf(heap'[ev'.mgr], p) = HandleOf(heap[ev'.mgr], p)
          /\ \A s \in Managers \ {ev'.mgr} : heap'[s] = heap[s]]_vars

C8_Witness ==
    /\ ev.type = "with" /\ ev.tag = ProviderAzure /\ ev.ret = ev.mgr
    /\ IsOverride(heap[ev.mgr].ecr) /\ IsOverride(heap[ev.mgr].gcr)
    /\ heap[ev.mgr].acr = ev.handle
    /\ \E s \in Managers \ {ev.mgr} : heap[s] = NewManager(s)

\* C9: Login leaves the Manager as it was, and the client and arguments of a
\* call are fixed by the Manager and the call's own arguments: calls of other
\* goroutines in flight neither change them nor are changed by them.
C9_LoginReadOnly ==
    [][ev'.type \in {"call", "return"} =>
          /\ heap' = heap
          /\ \A g \in Callers \ {ev'.g} : pend'[g] = pend[g]
          /\ ev'.type = "call" =>
                ev'.handle = HandleOf(heap[ev'.mgr], ImageRegistryProvider(ev'.image, ev'.ref))]_vars

C9_Witness ==
    /\ ev.type = "call"
    /\ \A g \in Callers : pend[g] = 1
    /\ heap = [r \in Managers |-> NewManager(r)]

ProviderTests(c) ==
    <<awsParseImage(c.image), gcpValidHost(RegistryStr(c.ref)),
      azureValidHost(RegistryStr(c.ref))>>

\* C10 as stated: no input passes more than one of the three provider tests.
C10_Disjoint ==
    \A c \in Classified :
        Cardinality({i \in 1..3 : ProviderTests(c)[i]}) <= 1

\* C10 amended: no input passes both host tests; an input that passes more than
\* one test passes the AWS image test, and precedence makes it AWS.
C10_HostTestsDisjoint ==
    \A c \in Classified :
        /\ ~(ProviderTests(c)[2] /\ ProviderTests(c)[3])
        /\ Cardinality({i \in 1..3 : ProviderTests(c)[i]}) > 1
              => ProviderTests(c)[1] /\ c.tag = ProviderAWS

C10_Witness ==
    \E c \in Classified :
        /\ ProviderTests(c)[1] /\ ProviderTests(c)[2]
        /\ c.image[1] = RegistryStr(c.ref)
        /\ c.tag = ProviderAWS

====
